---- MODULE Spec2Model ----
(***************************************************************************)
(* Model of mindly-py's Mindly class (src/mindly/mindly.py): loading the   *)
(* index and document files into the node forest and its indices, the      *)
(* node creators, dirty tracking and write-back.                           *)
(*                                                                         *)
(* Python dicts that are shared by reference (a node dict is reachable     *)
(* both from self.nodes and from the payload tree it is nested in) are     *)
(* modelled as entries of `heap`; a handle is a position in `heap`.        *)
(* Files on disk hold JSON values: trees without sharing.                  *)
(*                                                                         *)
(* An exception raised in the middle of a method leaves the assignments    *)
(* made before it in place; `result.err` names the exception.              *)
(*                                                                         *)
(* Left out: the note, color, colorThemeType, ideaType, hasNote and        *)
(* hasWebLink fields, which no index depends on.                           *)
(***************************************************************************)
EXTENDS Integers, Sequences, FiniteSets, TLC

VARIABLES
    disk,            \* files of data_dir: filename -> decoded content
    clock,           \* the wall clock, in seconds
    heap,            \* node dicts (sections and ideas), by handle
    file_data,       \* self.file_data: filename -> payload
    nodes,           \* self.nodes: identifier -> handle of the node dict
    structure,       \* self.structure: identifier -> child identifiers
    proxy_filenames, \* self.proxy_filenames
    id_path,         \* self.id_path
    name_path,       \* self.name_path
    filename_by_id,  \* self.filename_by_id
    files_modified,  \* self.files_modified: filenames in insertion order
    result,          \* the last call: operation, arguments, outcome
    calls,           \* number of create and mark_modified calls so far
    loaded           \* whether the last load_files call returned normally

vars == <<disk, clock, heap, file_data, nodes, structure, proxy_filenames,
          id_path, name_path, filename_by_id, files_modified, result,
          calls, loaded>>

----------------------------------------------------------------------------
(* Bounds *)

\* number of create and mark_modified calls in one run
MaxCalls == 2
\* number of calls in the sessions that only create documents and stamp them
MaxStampCalls == 3
\* the clock stops at this second
MaxClock == 2
\* number of distinct values random.randint(100, 999) is drawn from
NumRand == 2

----------------------------------------------------------------------------
(* Encodings *)

\* '__root'
ROOT == 0
\* "mindly.index"
mindly_index == 0
\* identifiers are "id<seconds>_<n>": seconds * IdStride + n
IdStride == 10
\* f"{id}.mndl"
MndlBase == 1000
\* an identifier no file and no _gen_id call ever holds
NoSuchId == IdStride - 1

Texts == {"Work", "Notes"}

MndlFile(id) == MndlBase + id

----------------------------------------------------------------------------
(* dict and list helpers *)

EmptyDict == [k \in {} |-> 0]

Put(d, k, v) == [x \in (DOMAIN d) \cup {k} |-> IF x = k THEN v ELSE d[x]]

Update(d, e) == [x \in (DOMAIN d) \cup (DOMAIN e) |->
                    IF x \in DOMAIN e THEN e[x] ELSE d[x]]

Range(s) == {s[i] : i \in DOMAIN s}

\* list.index(x), defined when x is in the list
ListIndex(s, x) == CHOOSE i \in 1..Len(s) :
                      /\ s[i] = x
                      /\ \A j \in 1..(i - 1) : s[j] # x

\* d[k] = True on an insertion-ordered dict of flags
SetFlag(s, k) == IF k \in Range(s) THEN s ELSE Append(s, k)

----------------------------------------------------------------------------
(* The state of a Mindly object as one record, for the methods below *)

Self == [heap |-> heap, file_data |-> file_data, nodes |-> nodes,
         structure |-> structure, proxy_filenames |-> proxy_filenames,
         id_path |-> id_path, name_path |-> name_path,
         filename_by_id |-> filename_by_id,
         files_modified |-> files_modified, err |-> ""]

Assign(m) ==
    /\ heap' = m.heap
    /\ file_data' = m.file_data
    /\ nodes' = m.nodes
    /\ structure' = m.structure
    /\ proxy_filenames' = m.proxy_filenames
    /\ id_path' = m.id_path
    /\ name_path' = m.name_path
    /\ filename_by_id' = m.filename_by_id
    /\ files_modified' = m.files_modified

Raise(m, e) == [m EXCEPT !.err = e]

----------------------------------------------------------------------------
(* Codec: json.load / json.dump of node trees *)

\* json.dump: the tree below the node dict at handle h
RECURSIVE Dump(_, _)
Dump(hp, h) ==
    [identifier |-> hp[h].identifier,
     text |-> hp[h].text,
     has_ideas |-> hp[h].has_ideas,
     ideas |-> [i \in 1..Len(hp[h].ideas) |-> Dump(hp, hp[h].ideas[i])]]

\* json.load: allocates one dict per node of tree t; children first
RECURSIVE Parse(_, _), ParseList(_, _, _)
Parse(hp, t) ==
    LET r == ParseList(hp, t.ideas, <<>>)
        obj == [identifier |-> t.identifier, text |-> t.text,
                has_ideas |-> t.has_ideas, ideas |-> r.hs]
    IN [heap |-> Append(r.heap, obj), h |-> Len(r.heap) + 1]
ParseList(hp, ts, hs) ==
    IF Len(ts) = 0 THEN [heap |-> hp, hs |-> hs]
    ELSE LET r == Parse(hp, ts[1])
         IN ParseList(r.heap, SubSeq(ts, 2, Len(ts)), Append(hs, r.h))

DumpList(hp, hs) == [i \in 1..Len(hs) |-> Dump(hp, hs[i])]

\* json.dump(self.file_data['mindly.index'])
DumpIndex(hp, ix) ==
    [fileFormatVersion |-> ix.fileFormatVersion,
     sections |-> DumpList(hp, ix.sections),
     proxies |-> ix.proxies]

\* zlib.compress(json.dumps({'ideaDocumentDataObject': document}))
DumpDocument(hp, doc) ==
    [ideaDocumentDataObject |->
        [fileFormatVersion |-> doc.fileFormatVersion,
         dateCreated |-> doc.dateCreated,
         dateModified |-> doc.dateModified,
         idea |-> Dump(hp, doc.idea)]]

----------------------------------------------------------------------------
(* Loading *)

\* a reset that forgets one index: structure survives the reload
_reset_state_keeping_structure(m) ==
    [m EXCEPT !.heap = <<>>,
              !.file_data = EmptyDict,
              !.nodes = EmptyDict,
              !.proxy_filenames = <<>>,
              !.id_path = EmptyDict,
              !.name_path = (ROOT :> <<>>),
              !.filename_by_id = EmptyDict]

_reset_state(m) ==
    [m EXCEPT !.heap = <<>>,
              !.file_data = EmptyDict,
              !.nodes = EmptyDict,
              !.structure = (ROOT :> <<>>),
              !.proxy_filenames = <<>>,
              !.id_path = EmptyDict,
              !.name_path = (ROOT :> <<>>),
              !.filename_by_id = EmptyDict]

_load_index(m, dk) ==
    LET raw == dk[mindly_index]
        r == ParseList(m.heap, raw.sections, <<>>)
        ix == [fileFormatVersion |-> raw.fileFormatVersion,
               sections |-> r.hs,
               proxies |-> raw.proxies]
        m1 == [m EXCEPT !.heap = r.heap,
                        !.file_data = Put(@, mindly_index, ix)]
    IN IF ix.fileFormatVersion # 2
       THEN Raise(m1, "UnsupportedMindlyFileFormatVersion")
       ELSE m1

RECURSIVE LoadSectionsFrom(_, _)
LoadSectionsFrom(m, k) ==
    LET hs == m.file_data[mindly_index].sections
    IN IF k > Len(hs) THEN m
       ELSE LET section_id == m.heap[hs[k]].identifier
                m1 == [m EXCEPT
                    !.id_path = Put(@, section_id, <<section_id>>),
                    !.name_path = Put(@, section_id, <<m.heap[hs[k]].text>>),
                    !.structure = Put(Put(@, ROOT, Append(@[ROOT], section_id)),
                                      section_id, <<>>)]
            IN LoadSectionsFrom(m1, k + 1)

\* the local dict `sections`, later sections overriding earlier ones
SectionsDict(hp, hs) ==
    [id \in {hp[hs[i]].identifier : i \in 1..Len(hs)} |->
        hs[CHOOSE i \in 1..Len(hs) :
              /\ hp[hs[i]].identifier = id
              /\ \A j \in (i + 1)..Len(hs) : hp[hs[j]].identifier # id]]

_load_sections(m) ==
    LET m1 == LoadSectionsFrom(m, 1)
    IN [m1 EXCEPT !.nodes = Update(@, SectionsDict(m1.heap,
                                  m1.file_data[mindly_index].sections))]

\* returns [m, nodes]: the updated state and the flattened node dict;
\* m.err is set when the lookup of the parent's name path raises
RECURSIVE _extract_nodes(_, _, _), ExtractChildren(_, _, _, _, _)
_extract_nodes(m, h, idp) ==
    LET node_id == m.heap[h].identifier
        parent_id == idp[Len(idp) - 1]
        m1 == [m EXCEPT !.id_path = Put(@, node_id, idp)]
        m2 == [m1 EXCEPT !.name_path = Put(@, node_id,
                             Append(@[parent_id], m.heap[h].text))]
    IN IF parent_id \notin DOMAIN m1.name_path
       THEN [m |-> Raise(m1, "KeyError"), nodes |-> (node_id :> h)]
       ELSE IF Len(m.heap[h].ideas) = 0
       THEN [m |-> m2, nodes |-> (node_id :> h)]
       ELSE ExtractChildren(
                [m2 EXCEPT !.structure = Put(@, node_id, <<>>)],
                h, idp, 1, (node_id :> h))
ExtractChildren(m, h, idp, k, acc) ==
    LET node_id == m.heap[h].identifier
        kids == m.heap[h].ideas
    IN IF k > Len(kids) THEN [m |-> m, nodes |-> acc]
       ELSE LET kid_id == m.heap[kids[k]].identifier
                m1 == [m EXCEPT !.structure =
                          Put(@, node_id, Append(@[node_id], kid_id))]
                r == _extract_nodes(m1, kids[k], Append(idp, kid_id))
            IN IF r.m.err # "" THEN [m |-> r.m, nodes |-> acc]
               ELSE ExtractChildren(r.m, h, idp, k + 1,
                                    Update(acc, r.nodes))

\* a loader that indexes the ideas first and looks at the version last
_load_ideas_document_checking_late(m, dk, filename, idp) ==
    IF filename \notin DOMAIN dk
    THEN [m |-> Raise(m, "FileNotFoundError"), nodes |-> EmptyDict]
    ELSE
    LET raw == dk[filename].ideaDocumentDataObject
        r == Parse(m.heap, raw.idea)
        doc == [fileFormatVersion |-> raw.fileFormatVersion,
                dateCreated |-> raw.dateCreated,
                dateModified |-> raw.dateModified,
                idea |-> r.h]
        m1 == [m EXCEPT !.heap = r.heap,
                        !.file_data = Put(@, filename, doc)]
        x == _extract_nodes(m1, r.h, idp)
        m2 == [x.m EXCEPT !.filename_by_id =
                  Update(@, [id \in DOMAIN x.nodes |-> filename])]
    IN IF x.m.err # "" THEN [m |-> x.m, nodes |-> EmptyDict]
       ELSE IF doc.fileFormatVersion # 4
       THEN [m |-> Raise(m2, "UnsupportedMindlyFileFormatVersion"),
             nodes |-> EmptyDict]
       ELSE [m |-> m2, nodes |-> x.nodes]

\* returns [m, nodes]; m.err is set when the method raises
_load_ideas_document(m, dk, filename, idp) ==
    IF filename \notin DOMAIN dk
    THEN [m |-> Raise(m, "FileNotFoundError"), nodes |-> EmptyDict]
    ELSE
    LET raw == dk[filename].ideaDocumentDataObject
        r == Parse(m.heap, raw.idea)
        doc == [fileFormatVersion |-> raw.fileFormatVersion,
                dateCreated |-> raw.dateCreated,
                dateModified |-> raw.dateModified,
                idea |-> r.h]
        m1 == [m EXCEPT !.heap = r.heap,
                        !.file_data = Put(@, filename, doc)]
    IN IF doc.fileFormatVersion # 4
       THEN [m |-> Raise(m1, "UnsupportedMindlyFileFormatVersion"),
             nodes |-> EmptyDict]
       ELSE LET x == _extract_nodes(m1, r.h, idp)
            IN IF x.m.err # "" THEN [m |-> x.m, nodes |-> EmptyDict]
               ELSE [m |-> [x.m EXCEPT !.filename_by_id =
                              Update(@, [id \in DOMAIN x.nodes |-> filename])],
                     nodes |-> x.nodes]

RECURSIVE LoadDocumentsFrom(_, _, _)
LoadDocumentsFrom(m, dk, k) ==
    LET proxies == m.file_data[mindly_index].proxies
    IN IF k > Len(proxies) THEN m
       ELSE LET proxy == proxies[k]
                section_id == proxy.section
            IN IF section_id \notin DOMAIN m.structure
               THEN Raise(m, "KeyError")
               ELSE LET m1 == [m EXCEPT
                            !.structure = Put(@, section_id,
                                Append(@[section_id], proxy.identifier)),
                            !.proxy_filenames = Append(@, proxy.filename)]
                        r == _load_ideas_document(m1, dk, proxy.filename,
                                 <<section_id, proxy.identifier>>)
                    IN IF r.m.err # "" THEN r.m
                       ELSE LoadDocumentsFrom(
                              [r.m EXCEPT !.nodes = Update(@, r.nodes)],
                              dk, k + 1)

_load_documents(m, dk) == LoadDocumentsFrom(m, dk, 1)

load_files(m, dk) ==
    LET m0 == _reset_state(m)
        m1 == _load_index(m0, dk)
    IN IF m1.err # "" THEN m1
       ELSE _load_documents(_load_sections(m1), dk)

----------------------------------------------------------------------------
(* The data directory at construction *)

Idea(id, text, kids) ==
    [identifier |-> id, text |-> text,
     has_ideas |-> (Len(kids) > 0), ideas |-> kids]

Section(id, text) ==
    [identifier |-> id, text |-> text, has_ideas |-> FALSE, ideas |-> <<>>]

Proxy(id, section_id, filename, text, count, date_created, date_modified) ==
    [identifier |-> id, section |-> section_id, filename |-> filename,
     text |-> text, itemCount |-> count,
     dateCreated |-> date_created, dateModified |-> date_modified]

\* one section "Work" holding one document "Notes" with one idea "Detail"
InitialDisk ==
    (mindly_index :>
        [fileFormatVersion |-> 2,
         sections |-> <<Section(1, "Work")>>,
         proxies |-> <<Proxy(2, 1, MndlFile(4), "Notes", 2, 0, 0)>>])
    @@
    (MndlFile(4) :>
        [ideaDocumentDataObject |->
            [fileFormatVersion |-> 4, dateCreated |-> 0, dateModified |-> 0,
             idea |-> Idea(2, "Notes", <<Idea(3, "Detail", <<>>)>>)]])

\* Mindly.__init__ up to the call of load_files
Constructed ==
    [heap |-> <<>>, file_data |-> EmptyDict, nodes |-> EmptyDict,
     structure |-> (ROOT :> <<>>), proxy_filenames |-> <<>>,
     id_path |-> EmptyDict, name_path |-> (ROOT :> <<>>),
     filename_by_id |-> EmptyDict, files_modified |-> <<>>, err |-> ""]

Outcome(op, arg, text, ret, err) ==
    [op |-> op, arg |-> arg, text |-> text, ret |-> ret, err |-> err]

Init ==
    /\ disk = InitialDisk
    /\ clock = 1    \* the files on disk were made at second 0
    /\ LET m == load_files(Constructed, InitialDisk)
       IN /\ heap = m.heap
          /\ file_data = m.file_data
          /\ nodes = m.nodes
          /\ structure = m.structure
          /\ proxy_filenames = m.proxy_filenames
          /\ id_path = m.id_path
          /\ name_path = m.name_path
          /\ filename_by_id = m.filename_by_id
          /\ files_modified = m.files_modified
    /\ result = Outcome("init", 0, "", 0, "")
    /\ calls = 0
    /\ loaded = TRUE

----------------------------------------------------------------------------
(* Writing *)

\* mutant of mark_modified: a document is stamped and flagged without the
\* index being flagged
mark_modified_without_index(m, filename, mtime) ==
    LET m1 == [m EXCEPT !.files_modified = SetFlag(@, filename)]
    IN IF filename = mindly_index THEN m1
       ELSE IF filename \notin DOMAIN m1.file_data THEN Raise(m1, "KeyError")
       ELSE
       LET m2 == [m1 EXCEPT !.file_data[filename].dateModified = mtime]
       IN IF filename \notin Range(m2.proxy_filenames)
          THEN Raise(m2, "ValueError")
          ELSE LET pos == ListIndex(m2.proxy_filenames, filename)
               IN [m2 EXCEPT !.file_data[mindly_index].proxies[pos]
                                 .dateModified = mtime]

RECURSIVE mark_modified(_, _, _)
mark_modified(m, filename, mtime) ==
    LET m1 == [m EXCEPT !.files_modified = SetFlag(@, filename)]
    IN IF filename = mindly_index THEN m1
       ELSE IF filename \notin DOMAIN m1.file_data THEN Raise(m1, "KeyError")
       ELSE
       LET m2 == [m1 EXCEPT !.file_data[filename].dateModified = mtime]
       IN IF filename \notin Range(m2.proxy_filenames)
          THEN Raise(m2, "ValueError")
          ELSE LET pos == ListIndex(m2.proxy_filenames, filename)
                   m3 == [m2 EXCEPT !.file_data[mindly_index].proxies[pos]
                                        .dateModified = mtime]
               IN mark_modified(m3, mindly_index, mtime)

\* returns [disk, m]: the loop of write() from position k of the dirty list
RECURSIVE WriteFrom(_, _, _, _)
WriteFrom(m, dk, todo, k) ==
    IF k > Len(todo)
    THEN [disk |-> dk, m |-> [m EXCEPT !.files_modified = <<>>]]
    ELSE LET filename == todo[k]
         IN IF filename \notin DOMAIN m.file_data
            THEN [disk |-> dk, m |-> Raise(m, "KeyError")]
            ELSE IF filename = mindly_index
            THEN [disk |-> Put(dk, filename,
                               DumpIndex(m.heap, m.file_data[filename])),
                  m |-> m]
            ELSE WriteFrom(m,
                     Put(dk, filename,
                         DumpDocument(m.heap, m.file_data[filename])),
                     todo, k + 1)

write(m, dk) == WriteFrom(m, dk, m.files_modified, 1)

_gen_id(t, r) == t * IdStride + r

----------------------------------------------------------------------------
(* Creating nodes.  Time does not pass within one call: every           *)
(* datetime.now() of a call reads the same second.                      *)

new_section(m, text, section_id) ==
    LET h == Len(m.heap) + 1
        m1 == [m EXCEPT
                 !.heap = Append(@, Section(section_id, text)),
                 !.file_data[mindly_index].sections = Append(@, h)]
        m2 == mark_modified(m1, mindly_index, 0)
    IN [m2 EXCEPT
          !.id_path = Put(@, section_id, <<section_id>>),
          !.name_path = Put(@, section_id, <<text>>),
          !.filename_by_id = Put(@, section_id, mindly_index)]

\* a new_document that puts the filename first in proxy_filenames
new_document_prepending_filename(m, text, section_id, now, node_id, file_id) ==
    LET filename == MndlFile(file_id)
        proxy == Proxy(node_id, section_id, filename, text, 1, now, now)
        h == Len(m.heap) + 1
        m1 == [m EXCEPT
                 !.file_data[mindly_index].proxies = Append(@, proxy),
                 !.proxy_filenames = <<filename>> \o @]
        m2 == [m1 EXCEPT
                 !.heap = Append(@, [identifier |-> node_id, text |-> text,
                                     has_ideas |-> FALSE, ideas |-> <<>>]),
                 !.file_data = Put(@, filename,
                     [fileFormatVersion |-> 4, dateCreated |-> now,
                      dateModified |-> now, idea |-> h]),
                 !.nodes = Put(@, node_id, h)]
        m3 == mark_modified(m2, filename, now)
        m4 == [m3 EXCEPT !.id_path = Put(@, node_id, <<section_id, node_id>>)]
    IN IF m3.err # "" THEN m3
       ELSE IF section_id \notin DOMAIN m4.nodes THEN Raise(m4, "KeyError")
       ELSE [m4 EXCEPT
               !.name_path = Put(@, node_id,
                   <<m4.heap[m4.nodes[section_id]].text, text>>),
               !.filename_by_id = Put(@, node_id, filename)]

new_document(m, text, section_id, now, node_id, file_id) ==
    LET filename == MndlFile(file_id)
        proxy == Proxy(node_id, section_id, filename, text, 1, now, now)
        h == Len(m.heap) + 1
        m1 == [m EXCEPT
                 !.file_data[mindly_index].proxies = Append(@, proxy),
                 !.proxy_filenames = Append(@, filename)]
        m2 == [m1 EXCEPT
                 !.heap = Append(@, [identifier |-> node_id, text |-> text,
                                     has_ideas |-> FALSE, ideas |-> <<>>]),
                 !.file_data = Put(@, filename,
                     [fileFormatVersion |-> 4, dateCreated |-> now,
                      dateModified |-> now, idea |-> h]),
                 !.nodes = Put(@, node_id, h)]
        m3 == mark_modified(m2, filename, now)
        m4 == [m3 EXCEPT !.id_path = Put(@, node_id, <<section_id, node_id>>)]
    IN IF m3.err # "" THEN m3
       ELSE IF section_id \notin DOMAIN m4.nodes THEN Raise(m4, "KeyError")
       ELSE [m4 EXCEPT
               !.name_path = Put(@, node_id,
                   <<m4.heap[m4.nodes[section_id]].text, text>>),
               !.filename_by_id = Put(@, node_id, filename)]

\* new_idea from the lookup of the owning file on (lines 209-217)
RegisterIdea(m, parent_id, text, idea_id, now) ==
    IF parent_id \notin DOMAIN m.filename_by_id THEN Raise(m, "KeyError")
    ELSE
    LET filename == m.filename_by_id[parent_id]
    IN IF filename \notin Range(m.proxy_filenames) THEN Raise(m, "ValueError")
       ELSE
       LET i == ListIndex(m.proxy_filenames, filename)
           m1 == [m EXCEPT
                    !.file_data[mindly_index].proxies[i].itemCount = @ + 1]
           m2 == mark_modified(m1, filename, now)
       IN IF m2.err # "" THEN m2
          ELSE IF parent_id \notin DOMAIN m2.id_path THEN Raise(m2, "KeyError")
          ELSE
          LET m3 == [m2 EXCEPT !.id_path =
                        Put(@, idea_id, Append(@[parent_id], idea_id))]
          IN IF parent_id \notin DOMAIN m3.name_path
             THEN Raise(m3, "KeyError")
             ELSE [m3 EXCEPT
                     !.name_path = Put(@, idea_id, Append(@[parent_id], text)),
                     !.filename_by_id = Put(@, idea_id, filename)]

new_idea(m, parent_id, text, now, idea_id) ==
    IF parent_id \notin DOMAIN m.nodes THEN Raise(m, "KeyError")
    ELSE
    LET ph == m.nodes[parent_id]
        h == Len(m.heap) + 1
        m1 == [m EXCEPT !.heap[ph].has_ideas = TRUE]
        m2 == [m1 EXCEPT
                 !.heap = Append([@ EXCEPT ![ph].ideas = Append(@, h)],
                                 [identifier |-> idea_id, text |-> text,
                                  has_ideas |-> TRUE, ideas |-> <<>>]),
                 !.nodes = Put(@, idea_id, h)]
    IN RegisterIdea(m2, parent_id, text, idea_id, now)

\* id1 and id2 are the values the _gen_id calls of the creator return
new_node(m, parent_id, text, now, id1, id2) ==
    IF parent_id \notin DOMAIN m.name_path THEN Raise(m, "KeyError")
    ELSE
    LET parent_depth == Len(m.name_path[parent_id])
    IN IF parent_depth = 0 THEN new_section(m, text, id1)
       ELSE IF parent_depth = 1
       THEN new_document(m, text, parent_id, now, id1, id2)
       ELSE new_idea(m, parent_id, text, now, id1)

----------------------------------------------------------------------------
(* Lookup *)

\* mutant of get_name_path_matches: the argument is matched as a prefix
get_name_path_matches_by_prefix(np, path) ==
    {node_id \in DOMAIN np :
        /\ Len(np[node_id]) >= Len(path)
        /\ SubSeq(np[node_id], 1, Len(path)) = path}

get_name_path_matches(np, path) ==
    {node_id \in DOMAIN np : np[node_id] = path}

\* [ret, err]
get_node_id_by_name_path(np, path) ==
    LET matches == get_name_path_matches(np, path)
    IN IF Cardinality(matches) > 1
       THEN [ret |-> 0, err |-> "AmbiguousNamePath"]
       ELSE IF matches = {}
       THEN [ret |-> 0, err |-> "NoSuchNodeError"]
       ELSE [ret |-> CHOOSE n \in matches : TRUE, err |-> ""]

----------------------------------------------------------------------------
(* Actions: one call of a public method each *)

\* the identifiers a caller can name: those in use and one that is not
KnownIds == (DOMAIN nodes) \cup (DOMAIN id_path) \cup {NoSuchId}

\* the values _gen_id can return at the current second
FreshIds == {_gen_id(clock, r) : r \in 1..NumRand}

Returned(m, id) == IF m.err = "" THEN id ELSE 0

NewSection ==
    /\ calls < MaxCalls
    /\ calls' = calls + 1
    /\ \E text \in Texts, id \in FreshIds :
          LET m == new_section(Self, text, id)
          IN /\ Assign(m)
             /\ result' = Outcome("new_section", ROOT, text,
                                  Returned(m, id), m.err)
    /\ UNCHANGED <<disk, clock, loaded>>

\* the call, in a session of at most limit calls
CreateDocument(limit) ==
    /\ calls < limit
    /\ calls' = calls + 1
    /\ \E text \in Texts, section_id \in KnownIds,
          id \in FreshIds, fid \in FreshIds :
          LET m == new_document(Self, text, section_id, clock, id, fid)
          IN /\ Assign(m)
             /\ result' = Outcome("new_document", section_id, text,
                                  Returned(m, id), m.err)
    /\ UNCHANGED <<disk, clock, loaded>>

NewDocument == CreateDocument(MaxCalls)

\* the call, in a session of at most limit calls
CreateIdea(limit) ==
    /\ calls < limit
    /\ calls' = calls + 1
    /\ \E text \in Texts, parent_id \in KnownIds, id \in FreshIds :
          LET m == new_idea(Self, parent_id, text, clock, id)
          IN /\ Assign(m)
             /\ result' = Outcome("new_idea", parent_id, text,
                                  Returned(m, id), m.err)
    /\ UNCHANGED <<disk, clock, loaded>>

NewIdea == CreateIdea(MaxCalls)

NewNode ==
    /\ calls < MaxCalls
    /\ calls' = calls + 1
    /\ \E text \in Texts, parent_id \in KnownIds \cup {ROOT},
          id \in FreshIds, fid \in FreshIds :
          LET m == new_node(Self, parent_id, text, clock, id, fid)
          IN /\ Assign(m)
             /\ result' = Outcome("new_node", parent_id, text,
                                  Returned(m, id), m.err)
    /\ UNCHANGED <<disk, clock, loaded>>

\* the call, in a session of at most limit calls
Stamp(limit) ==
    /\ calls < limit
    /\ calls' = calls + 1
    /\ \E filename \in DOMAIN file_data :
          LET m == mark_modified(Self, filename, clock)
          IN /\ Assign(m)
             /\ result' = Outcome("mark_modified", filename, "", 0, m.err)
    /\ UNCHANGED <<disk, clock, loaded>>

MarkModified == Stamp(MaxCalls)

Write ==
    /\ LET r == write(Self, disk)
       IN /\ Assign(r.m)
          /\ disk' = r.disk
          /\ result' = Outcome("write", files_modified, "", 0, r.m.err)
    /\ UNCHANGED <<clock, calls, loaded>>

Load ==
    /\ LET m == load_files(Self, disk)
       IN /\ Assign(m)
          /\ result' = Outcome("load_files", 0, "", 0, m.err)
          /\ loaded' = (m.err = "")
    /\ UNCHANGED <<disk, clock, calls>>

\* the name paths a caller looks up: those of the forest, their prefixes
\* and their extensions by one name
LookupPaths ==
    LET held == {name_path[n] : n \in DOMAIN name_path}
    IN UNION {{SubSeq(p, 1, k) : k \in 0..Len(p)} : p \in held}
       \cup {Append(p, t) : p \in held, t \in Texts}

Lookup ==
    /\ \E path \in LookupPaths :
          LET r == get_node_id_by_name_path(name_path, path)
          IN result' = Outcome("get_node_id_by_name_path", path, "",
                               r.ret, r.err)
    /\ UNCHANGED <<disk, clock, heap, file_data, nodes, structure,
                   proxy_filenames, id_path, name_path, filename_by_id,
                   files_modified, calls, loaded>>

Tick ==
    /\ clock < MaxClock
    /\ clock' = clock + 1
    /\ UNCHANGED <<disk, heap, file_data, nodes, structure, proxy_filenames,
                   id_path, name_path, filename_by_id, files_modified, result,
                   calls, loaded>>

Next ==
    \/ NewSection
    \/ NewDocument
    \/ NewIdea
    \/ NewNode
    \/ MarkModified
    \/ Write
    \/ Load
    \/ Tick

Spec == Init /\ [][Next]_vars

\* the calls of one second, with lookups in between
NextLookup ==
    \/ NewSection
    \/ NewDocument
    \/ NewIdea
    \/ NewNode
    \/ Write
    \/ Load
    \/ Lookup

SpecLookup == Init /\ [][NextLookup]_vars

\* sessions of up to MaxStampCalls calls that create documents and ideas and
\* stamp documents, over several seconds, without writing
DeepNewDocument == CreateDocument(MaxStampCalls)

DeepNewIdea == CreateIdea(MaxStampCalls)

DeepMarkModified == Stamp(MaxStampCalls)

NextStamps ==
    \/ DeepNewDocument
    \/ DeepNewIdea
    \/ DeepMarkModified
    \/ Tick

SpecStamps == Init /\ [][NextStamps]_vars

\* sessions of a caller that stops at the first exception of a create:
\* successful creates, write and load
SuccessfulNewSection == NewSection /\ result'.err = ""

SuccessfulNewDocument == NewDocument /\ result'.err = ""

SuccessfulNewIdea == NewIdea /\ result'.err = ""

NextRoundTrip ==
    \/ SuccessfulNewSection
    \/ SuccessfulNewDocument
    \/ SuccessfulNewIdea
    \/ Write
    \/ Load

SpecRoundTrip == Init /\ [][NextRoundTrip]_vars

\* another program (a Mindly app of another release) rewrites one file of
\* data_dir under another fileFormatVersion
ForeignWrite ==
    /\ \E f \in DOMAIN disk :
          IF f = mindly_index
          THEN \E v \in {2, 3} :
                 /\ v # disk[f].fileFormatVersion
                 /\ disk' = [disk EXCEPT ![f].fileFormatVersion = v]
          ELSE \E v \in {4, 5} :
                 /\ v # disk[f].ideaDocumentDataObject.fileFormatVersion
                 /\ disk' = [disk EXCEPT
                        ![f].ideaDocumentDataObject.fileFormatVersion = v]
    /\ UNCHANGED <<clock, heap, file_data, nodes, structure, proxy_filenames,
                   id_path, name_path, filename_by_id, files_modified, result,
                   calls, loaded>>

\* the store over a data directory whose files other programs rewrite
NextVersions ==
    \/ NewSection
    \/ NewDocument
    \/ NewIdea
    \/ Write
    \/ Load
    \/ ForeignWrite

SpecVersions == Init /\ [][NextVersions]_vars

----------------------------------------------------------------------------
(* Vocabulary of the properties *)

IndexPayload == file_data[mindly_index]

Dirty == Range(files_modified)

\* what write() puts on disk for the payload of filename f
Encoded(f) ==
    IF f = mindly_index THEN DumpIndex(heap, file_data[f])
    ELSE DumpDocument(heap, file_data[f])

\* a step that is one create or mark_modified call
IsCall == calls' = calls + 1

SamePath(a, b) == Len(a) = Len(b) /\ \A i \in 1..Len(a) : a[i] = b[i]

\* the parent of n according to id_path
ParentOf(idp, n) ==
    IF Len(idp[n]) > 1 THEN idp[n][Len(idp[n]) - 1] ELSE ROOT

RECURSIVE CountIdeas(_, _)
\* number of idea dicts of the tree below handle h, h included
CountIdeas(hp, h) ==
    LET RECURSIVE Sum(_)
        Sum(k) == IF k = 0 THEN 0
                  ELSE CountIdeas(hp, hp[h].ideas[k]) + Sum(k - 1)
    IN 1 + Sum(Len(hp[h].ideas))

----------------------------------------------------------------------------
(* C1 .. C10 *)

\* C1: after write() has returned normally, every filename that was dirty
\* when it was called is on disk with its current in-memory payload.
C1_WriteFlushesEveryDirtyFile ==
    (result.op = "write" /\ result.err = "") =>
        \A f \in Range(result.arg) :
            /\ f \in DOMAIN file_data
            /\ f \in DOMAIN disk
            /\ disk[f] = Encoded(f)

\* C2: after write() has returned normally the dirty set is empty.
C2_WriteClearsDirtySet ==
    (result.op = "write" /\ result.err = "") => files_modified = <<>>

\* C3: structure is the exact inverse of the parent relation of id_path:
\* every node is listed under its parent (sections under the virtual root),
\* and every listed child has the key it is listed under as its parent.
C3_StructureInvertsIdPath ==
    /\ \A n \in DOMAIN id_path :
          /\ ParentOf(id_path, n) \in DOMAIN structure
          /\ n \in Range(structure[ParentOf(id_path, n)])
    /\ \A p \in DOMAIN structure : \A c \in Range(structure[p]) :
          /\ c \in DOMAIN id_path
          /\ ParentOf(id_path, c) = p

\* C4: create_document(t, S) right after create_section(s) has returned S
\* succeeds: the root idea it returns (a node other than S) has name path
\* [s, t] and id path [S, id], a proxy record with itemCount 1 is added,
\* and the new document file and the index are dirty.
C4_DocumentUnderFreshSection ==
    [][(/\ result.op = "new_section" /\ result.err = ""
        /\ IsCall
        /\ result'.op = "new_document" /\ result'.arg = result.ret
        /\ result'.ret # result.ret)
       => (/\ result'.err = ""
           /\ result'.ret \in DOMAIN name_path'
           /\ name_path'[result'.ret] = <<result.text, result'.text>>
           /\ result'.ret \in DOMAIN id_path'
           /\ id_path'[result'.ret] = <<result.ret, result'.ret>>
           /\ Len(IndexPayload'.proxies) = Len(IndexPayload.proxies) + 1
           /\ LET proxy == IndexPayload'.proxies[Len(IndexPayload'.proxies)]
              IN /\ proxy.identifier = result'.ret
                 /\ proxy.itemCount = 1
                 /\ proxy.filename \in Dirty'
           /\ mindly_index \in Dirty')]_vars

\* C5: create_section(text) appends one section record to the index
\* payload, sets id_path to [id] and name_path to [text], registers the id
\* as one more child of the virtual root in structure, and makes the index,
\* and no document file, dirty.
C5_CreateSection ==
    [][(IsCall /\ result'.op = "new_section")
       => LET id == result'.ret
              old == IndexPayload.sections
              new == IndexPayload'.sections
          IN /\ result'.err = ""
             /\ Len(new) = Len(old) + 1
             /\ SubSeq(new, 1, Len(old)) = old
             /\ heap'[new[Len(new)]].identifier = id
             /\ heap'[new[Len(new)]].text = result'.text
             /\ id \in DOMAIN id_path' /\ id_path'[id] = <<id>>
             /\ id \in DOMAIN name_path' /\ name_path'[id] = <<result'.text>>
             /\ structure'[ROOT] = Append(structure[ROOT], id)
             /\ Dirty' = Dirty \cup {mindly_index}]_vars

C7_ItemCountCountsIdeas ==
    \A i \in 1..Len(IndexPayload.proxies) :
        LET proxy == IndexPayload.proxies[i]
        IN proxy.filename \in DOMAIN file_data =>
              proxy.itemCount =
                  CountIdeas(heap, file_data[proxy.filename].idea)

\* C8: a lookup returns N exactly when N is the only node whose name path
\* equals the argument element by element over its whole length; it raises
\* NoSuchNodeError when no node matches and AmbiguousNamePath when two or
\* more do.
C8_LookupByNamePath ==
    result.op = "get_node_id_by_name_path" =>
        LET same == {n \in DOMAIN name_path :
                        SamePath(name_path[n], result.arg)}
        IN /\ (result.err = "") = (Cardinality(same) = 1)
           /\ result.err = "" => same = {result.ret}
           /\ (result.err = "NoSuchNodeError") = (same = {})
           /\ (result.err = "AmbiguousNamePath") = (Cardinality(same) > 1)

\* C8 witness: the lookup of a name path that two documents created under
\* the same section share
C8_Witness ==
    /\ result.op = "get_node_id_by_name_path"
    /\ result.err = "AmbiguousNamePath"
    /\ Len(result.arg) = 2

\* C9: create_node under the virtual root creates a section, under a
\* section a document of that section, under a document root or an idea
\* an idea below that parent, for every parent that has an id_path.
C9_CreateNodeDispatch ==
    [][(/\ IsCall /\ result'.op = "new_node"
        /\ result'.arg \in (DOMAIN id_path) \cup {ROOT})
       => LET parent == result'.arg
              id == result'.ret
              depth == IF parent = ROOT THEN 0 ELSE Len(id_path[parent])
          IN /\ result'.err = ""
             /\ id \in DOMAIN id_path'
             /\ depth = 0 =>
                   /\ id_path'[id] = <<id>>
                   /\ Len(IndexPayload'.sections)
                         = Len(IndexPayload.sections) + 1
             /\ depth = 1 =>
                   /\ id_path'[id] = <<parent, id>>
                   /\ Len(IndexPayload'.proxies)
                         = Len(IndexPayload.proxies) + 1
                   /\ IndexPayload'.proxies[Len(IndexPayload'.proxies)]
                         .section = parent
             /\ depth >= 2 =>
                   /\ id_path'[id] = Append(id_path[parent], id)
                   /\ Len(IndexPayload'.proxies) = Len(IndexPayload.proxies)
                   /\ Len(IndexPayload'.sections)
                         = Len(IndexPayload.sections)]_vars

\* C10: after load() the dirty set is empty.
C10_LoadResetsDirtySet ==
    result.op = "load_files" => files_modified = <<>>

----------------------------------------------------------------------------
(* C11 .. C20 *)

\* C11: the forest and the indices after load_files are a function of the
\* files on disk only: whatever the object held before the call, it then
\* holds the payloads, nodes, id_path, name_path, structure, filename_by_id
\* and proxy_filenames (and raises the error) that a freshly constructed
\* object gets from the same files.
C11_LoadIsFunctionOfDisk ==
    result.op = "load_files" =>
        LET fresh == load_files(Constructed, disk)
        IN /\ result.err = fresh.err
           /\ heap = fresh.heap
           /\ file_data = fresh.file_data
           /\ nodes = fresh.nodes
           /\ id_path = fresh.id_path
           /\ name_path = fresh.name_path
           /\ structure = fresh.structure
           /\ filename_by_id = fresh.filename_by_id
           /\ proxy_filenames = fresh.proxy_filenames

\* a reload that discarded creates which were never written
C11_Witness ==
    /\ result.op = "load_files"
    /\ calls >= 1
    /\ files_modified # <<>>
    /\ disk = InitialDisk

\* the node dicts of the tree below the dict at handle h
RECURSIVE TreeHandles(_, _)
TreeHandles(hp, h) ==
    {h} \cup UNION {TreeHandles(hp, hp[h].ideas[i]) :
                       i \in 1..Len(hp[h].ideas)}

VersionRejected ==
    /\ result.op = "load_files"
    /\ result.err = "UnsupportedMindlyFileFormatVersion"

\* the proxy record load_files was working on when it raised
RejectedProxy == IndexPayload.proxies[Len(proxy_filenames)]

\* After a load that rejected a file for its version: nothing of an
\* unsupported index is indexed; of an unsupported document no node dict is
\* in nodes, no identifier maps to its file, and no identifier of its own
\* is a key of id_path, name_path or structure.  listed(n, p) says where
\* such an identifier may stand in a child list of structure.
UnsupportedLeftOut(listed(_, _)) ==
    IF IndexPayload.fileFormatVersion # 2
    THEN /\ nodes = EmptyDict
         /\ id_path = EmptyDict
         /\ name_path = (ROOT :> <<>>)
         /\ structure = (ROOT :> <<>>)
         /\ filename_by_id = EmptyDict
         /\ proxy_filenames = <<>>
    ELSE LET f == RejectedProxy.filename
             rejected == TreeHandles(heap, file_data[f].idea)
             own == {heap[h].identifier : h \in rejected} \ DOMAIN nodes
         IN /\ \A n \in DOMAIN nodes : nodes[n] \notin rejected
            /\ \A n \in DOMAIN filename_by_id : filename_by_id[n] # f
            /\ \A n \in own :
                  /\ n \notin DOMAIN id_path
                  /\ n \notin DOMAIN name_path
                  /\ n \notin DOMAIN structure
                  /\ \A p \in DOMAIN structure :
                        n \in Range(structure[p]) => listed(n, p)

NowhereListed(n, p) == FALSE

ListedFromProxy(n, p) ==
    /\ n = RejectedProxy.identifier
    /\ p = RejectedProxy.section

\* C12 (as stated): when the index declares a version other than 2 or a
\* document a version other than 4, load_files raises the format-version
\* error and no section of that index and no idea of that document is in
\* nodes, id_path, name_path, structure or filename_by_id.
C12_UnsupportedFileNotIndexed ==
    VersionRejected => UnsupportedLeftOut(NowhereListed)

\* C12 (amended): the same, except that structure already lists the
\* document's identifier, taken from its proxy record, under the proxy's
\* section: _load_documents registers the proxy before it opens the file.
C12_UnsupportedFileIndexedByProxyOnly ==
    VersionRejected => UnsupportedLeftOut(ListedFromProxy)

\* a load stopped by a document of version 5 whose root idea has children
C12_Witness ==
    /\ VersionRejected
    /\ IndexPayload.fileFormatVersion = 2
    /\ Len(heap[file_data[RejectedProxy.filename].idea].ideas) > 0

\* the node dicts held by the payloads: section records, document trees
LiveHandles ==
    UNION ({TreeHandles(heap, IndexPayload.sections[i]) :
               i \in 1..Len(IndexPayload.sections)}
           \cup {TreeHandles(heap, file_data[f].idea) :
                    f \in DOMAIN file_data \ {mindly_index}})

\* C13: in every reachable state no two nodes of the forest carry the same
\* identifier and no two proxy records the same filename: an identifier or
\* filename made by a create never equals one already present, also when
\* the creates fall into one clock second.
C13_IdentifiersUnique ==
    /\ \A h1, h2 \in LiveHandles :
          h1 # h2 => heap[h1].identifier # heap[h2].identifier
    /\ \A i, j \in 1..Len(IndexPayload.proxies) :
          i # j => IndexPayload.proxies[i].filename
                     # IndexPayload.proxies[j].filename

\* C14: in every reachable state, the states left by creates that raised
\* included, every node with an id_path entry has a name_path entry of the
\* same length whose i-th element is the text of the node named by the
\* i-th element of the id_path.
C14_NamePathMirrorsIdPath ==
    \A n \in DOMAIN id_path :
        /\ n \in DOMAIN name_path
        /\ Len(name_path[n]) = Len(id_path[n])
        /\ \A i \in 1..Len(id_path[n]) :
              \E h \in LiveHandles :
                  /\ heap[h].identifier = id_path[n][i]
                  /\ heap[h].text = name_path[n][i]

\* C15: after every create the node map and the ancestry index name the
\* same nodes, and each of them is a record of the index payload's section
\* list or a dict in the idea tree of a document payload.
C15_NodeMapMatchesIndices ==
    (result.op \in {"new_section", "new_document", "new_idea", "new_node"}) =>
        /\ DOMAIN id_path = DOMAIN nodes
        /\ \A n \in DOMAIN nodes :
              /\ nodes[n] \in LiveHandles
              /\ heap[nodes[n]].identifier = n

IsCreate ==
    /\ IsCall
    /\ result'.op \in {"new_section", "new_document", "new_idea", "new_node"}

\* C16: new_node, new_idea and new_document called with a parent or section
\* id that no index of the forest knows raise NoSuchNodeError.
C16_AbsentParentRaisesNoSuchNode ==
    [][(/\ IsCreate
        /\ result'.op # "new_section"
        /\ result'.arg \notin
              (DOMAIN nodes) \cup (DOMAIN id_path) \cup (DOMAIN name_path))
       => result'.err = "NoSuchNodeError"]_vars

\* C17: a create that raises leaves the store as it was before the call:
\* payloads, node dicts, node map, structure, proxy_filenames, id_path,
\* name_path, filename_by_id and the dirty set.
C17_FailedCreateChangesNothing ==
    [][(IsCreate /\ result'.err # "")
       => UNCHANGED <<heap, file_data, nodes, structure, proxy_filenames,
                      id_path, name_path, filename_by_id,
                      files_modified>>]_vars

\* the node dicts of the documents' idea trees: document roots and ideas
DocumentHandles ==
    UNION {TreeHandles(heap, file_data[f].idea) :
             f \in DOMAIN file_data \ {mindly_index}}

\* C18: new_idea(parent_id, text) under any document root or idea gives
\* the new idea the parent's id_path and name_path extended by its own id
\* and text and the parent's filename, appends it as the last child of the
\* parent in the owning payload, and leaves every other document's payload
\* and proxy record as they were.
C18_CreateIdeaFrame ==
    [][(/\ IsCall /\ result'.op = "new_idea"
        /\ result'.arg \in DOMAIN nodes
        /\ nodes[result'.arg] \in DocumentHandles)
       => LET parent == result'.arg
              id == result'.ret
              kids == heap'[nodes[parent]].ideas
          IN /\ result'.err = ""
             /\ id_path'[id] = Append(id_path[parent], id)
             /\ name_path'[id] = Append(name_path[parent], result'.text)
             /\ filename_by_id'[id] = filename_by_id[parent]
             /\ Len(kids) = Len(heap[nodes[parent]].ideas) + 1
             /\ SubSeq(kids, 1, Len(kids) - 1) = heap[nodes[parent]].ideas
             /\ kids[Len(kids)] = nodes'[id]
             /\ heap'[nodes'[id]].identifier = id
             /\ heap'[nodes'[id]].text = result'.text
             /\ \A f \in DOMAIN file_data \ {mindly_index,
                                               filename_by_id[parent]} :
                   Encoded(f)' = Encoded(f)
             /\ \A i \in 1..Len(IndexPayload.proxies) :
                   IndexPayload.proxies[i].filename # filename_by_id[parent]
                      => IndexPayload'.proxies[i] = IndexPayload.proxies[i]]_vars

ProxyFilenamesParallel ==
    /\ Len(proxy_filenames) = Len(IndexPayload.proxies)
    /\ \A i \in 1..Len(proxy_filenames) :
          proxy_filenames[i] = IndexPayload.proxies[i].filename

\* C19 (as stated): in every reachable state proxy_filenames has the
\* length of the index payload's proxy list and holds, at each position,
\* the filename of the proxy record at that position.
C19_ProxyFilenamesParallelAlways == ProxyFilenamesParallel

\* C19 (amended): the same in every reachable state whose last load_files
\* call returned normally; a load that raised has registered the proxies
\* only up to the one it failed on.
C19_ProxyFilenamesParallelWhenLoaded == loaded => ProxyFilenamesParallel

\* a new_document that raised after it had appended proxy and filename
C19_Witness ==
    /\ loaded
    /\ result.op = "new_document"
    /\ result.err # ""
    /\ Len(proxy_filenames) >= 2

\* C20: in every reachable state filename_by_id is defined for every node:
\* each section record of the index payload, loaded or created, maps to
\* mindly.index, and each document root and idea maps to the filename of
\* the payload whose tree holds it.
C20_FilenameByIdTotal ==
    /\ \A i \in 1..Len(IndexPayload.sections) :
          LET id == heap[IndexPayload.sections[i]].identifier
          IN /\ id \in DOMAIN filename_by_id
             /\ filename_by_id[id] = mindly_index
    /\ \A f \in DOMAIN file_data \ {mindly_index} :
          \A h \in TreeHandles(heap, file_data[f].idea) :
             /\ heap[h].identifier \in DOMAIN filename_by_id
             /\ filename_by_id[heap[h].identifier] = f

----------------------------------------------------------------------------
(* C21 .. C23 *)

\* C21: after every new_document, new_idea and mark_modified, each document
\* payload the call created or stamped carries the dateModified of that
\* document's proxy record (the proxy naming the payload's file and root
\* idea); mark_modified on mindly.index changes no timestamp.
C21_ProxyStampedWithPayload ==
    [][(/\ IsCall
        /\ result'.op \in {"new_document", "new_idea", "mark_modified"})
       => /\ \A f \in DOMAIN file_data' \ {mindly_index} :
               (f \notin DOMAIN file_data \/ file_data'[f] # file_data[f])
               => \A i \in 1..Len(IndexPayload'.proxies) :
                     LET p == IndexPayload'.proxies[i]
                     IN (/\ p.filename = f
                         /\ p.identifier
                               = heap'[file_data'[f].idea].identifier)
                        => p.dateModified = file_data'[f].dateModified
          /\ (result'.op = "mark_modified" /\ result'.arg = mindly_index)
               => file_data' = file_data]_vars

\* the nodes the files held at construction
InitialIds == DOMAIN load_files(Constructed, InitialDisk).id_path

\* C22: after successful creates, a write() that returns and then a load,
\* the load succeeds and every node created in the session is in the
\* reloaded forest with the id_path and name_path it had in memory before
\* the write (stated for sessions in which no identifier or filename came
\* out twice).
C22_WriteLoadRoundTrip ==
    [][(/\ result.op = "write" /\ result.err = ""
        /\ result'.op = "load_files"
        /\ C13_IdentifiersUnique)
       => /\ result'.err = ""
          /\ \A n \in (DOMAIN id_path) \ InitialIds :
                /\ n \in DOMAIN nodes'
                /\ n \in DOMAIN id_path'
                /\ id_path'[n] = id_path[n]
                /\ n \in DOMAIN name_path'
                /\ name_path'[n] = name_path[n]]_vars

\* C23: in every reachable state every filename flagged in files_modified
\* is a key of file_data, so write() finds a payload for each dirty file.
C23_DirtyFilesHavePayloads == Dirty \subseteq DOMAIN file_data

====
